---- MODULE Spec2Model ----
(***************************************************************************)
(* A model of nose/util.py: the specifier parser (split_test_name,        *)
(* file_like), the path <-> module-name mapping (src, ispackage,           *)
(* getfilename, getpackage), the address resolver (test_address), the      *)
(* name binder (resolve_name) and the fixture helper (try_run).            *)
(*                                                                         *)
(* Python strings are sequences of one-character strings, so that every    *)
(* split, join, suffix test and normalisation is computed character by     *)
(* character the way posixpath and str compute it.  Python's None is the   *)
(* one-element sequence <<"None">>, which is no string of characters.      *)
(***************************************************************************)
EXTENDS Integers, Sequences, FiniteSets, TLC

VARIABLES
    files,        \* the regular files that exist (absolute normalised paths)
    dirs,         \* the directories that exist (absolute normalised paths)
    cwd,          \* os.getcwd()
    test,         \* the argument of split_test_name / file_like
    split_result, \* what split_test_name(test) did
    fl_result,    \* what file_like(test) returned
    pkg_path,     \* the argument of getpackage
    chain,        \* the results of getpackage, getfilename, getpackage, ... so far
    entity,       \* the argument of test_address
    sys_modules,  \* sys.modules: module name -> module object
    addr_result,  \* what test_address(entity) did
    rn_name,      \* the argument of resolve_name
    importable,   \* the import targets __import__ finds
    attributes,   \* the attribute paths getattr finds
    rn_parts,     \* resolve_name's parts
    rn_parts_copy, \* resolve_name's parts_copy
    attempts,     \* the targets handed to __import__ so far, in order
    obj,          \* resolve_name's obj
    rn_pc,        \* where resolve_name is
    fixture_obj,  \* the obj argument of try_run
    names,        \* the names argument of try_run
    tr_i,         \* the index of try_run's loop in names
    calls,        \* the fixture calls made so far, in order
    tr_result     \* what try_run did

fsVars == <<files, dirs, cwd>>
nameVars == <<test, split_result, fl_result>>
pkgVars == <<pkg_path, chain>>
addrVars == <<entity, sys_modules, addr_result>>
rnVars ==
    <<rn_name, importable, attributes, rn_parts, rn_parts_copy, attempts, obj, rn_pc>>
trVars == <<fixture_obj, names, tr_i, calls, tr_result>>
vars == <<fsVars, nameVars, pkgVars, addrVars, rnVars, trVars>>

-----------------------------------------------------------------------------
(* Bounds of the model. *)

MaxLen == 5
\* The calls of the path <-> module round trip that are followed.
MaxChain == 5
\* The longest dotted name handed to resolve_name.
MaxNameLen == 5
\* The longest list of fixture names handed to try_run.
MaxNames == 3

-----------------------------------------------------------------------------
(* Values. *)

None == <<"None">>
Pending == [exc |-> "pending"]
Returned(v) == [exc |-> "none", val |-> v]
Raised(e) == [exc |-> e]

SEP == "/"
EmptyStr == <<>>
DOT_PY == <<".", "p", "y">>
DOT_PYC == <<".", "p", "y", "c">>
DOT_PYO == <<".", "p", "y", "o">>
INIT_PY == <<"_", "_", "i", "n", "i", "t", "_", "_", ".", "p", "y">>
INIT_STEM == <<"_", "_", "i", "n", "i", "t", "_", "_">>

Letters == {"a", "b", "c", "d", "i", "m", "n", "o", "p", "t", "w", "x", "y", "_"}
Digits == {"1"}

-----------------------------------------------------------------------------
(* str methods. *)

MaxOf(S) == CHOOSE x \in S : \A y \in S : y <= x
MinOf(S) == CHOOSE x \in S : \A y \in S : x <= y

\* s.find(c) and s.rfind(c), 1-based, 0 when c does not occur.
Find(s, c) ==
    LET I == {i \in 1..Len(s) : s[i] = c} IN IF I = {} THEN 0 ELSE MinOf(I)
RFind(s, c) ==
    LET I == {i \in 1..Len(s) : s[i] = c} IN IF I = {} THEN 0 ELSE MaxOf(I)

Contains(s, c) == \E i \in 1..Len(s) : s[i] = c
Count(s, c) == Cardinality({i \in 1..Len(s) : s[i] = c})

\* s[i:] and s[:i] with Python's 0-based slice bounds.
From(s, i) == SubSeq(s, i + 1, Len(s))
UpTo(s, i) == SubSeq(s, 1, i)

StartsWith(s, pre) == Len(pre) <= Len(s) /\ UpTo(s, Len(pre)) = pre
EndsWith(s, suf) == Len(suf) <= Len(s) /\ From(s, Len(s) - Len(suf)) = suf

\* s.split(c): always at least one part.
RECURSIVE Split(_, _)
Split(s, c) ==
    LET i == Find(s, c) IN
    IF i = 0 THEN <<s>>
    ELSE <<UpTo(s, i - 1)>> \o Split(From(s, i), c)

\* sep.join(parts)
RECURSIVE Join(_, _)
Join(parts, sep) ==
    IF parts = <<>> THEN EmptyStr
    ELSE IF Len(parts) = 1 THEN parts[1]
    ELSE parts[1] \o sep \o Join(Tail(parts), sep)

\* s.rstrip('/')
RECURSIVE RStripSep(_)
RStripSep(s) ==
    IF s # <<>> /\ s[Len(s)] = SEP THEN RStripSep(UpTo(s, Len(s) - 1)) ELSE s

AllSeps(s) == \A i \in 1..Len(s) : s[i] = SEP

-----------------------------------------------------------------------------
(* posixpath. *)

os_path_isabs(p) == StartsWith(p, <<SEP>>)

\* posixpath.split: (head, tail), tail never holds a slash; trailing slashes
\* are stripped from head unless head is all slashes.
os_path_split(p) ==
    LET i == RFind(p, SEP)
        head == UpTo(p, i)
        tail == From(p, i)
    IN  <<IF head # <<>> /\ ~AllSeps(head) THEN RStripSep(head) ELSE head, tail>>

os_path_dirname(p) == os_path_split(p)[1]
os_path_basename(p) == From(p, RFind(p, SEP))

\* genericpath._splitext: the extension starts at the last dot of the last
\* component, leading dots of that component not counted.
os_path_splitext(p) ==
    LET sepIndex == RFind(p, SEP)
        dotIndex == RFind(p, ".")
    IN  IF dotIndex > sepIndex
           /\ \E k \in (sepIndex + 1)..(dotIndex - 1) : p[k] # "."
        THEN <<UpTo(p, dotIndex - 1), From(p, dotIndex - 1)>>
        ELSE <<p, EmptyStr>>

\* posixpath.join(a, b)
os_path_join(a, b) ==
    IF StartsWith(b, <<SEP>>) THEN b
    ELSE IF a = <<>> \/ EndsWith(a, <<SEP>>) THEN a \o b
    ELSE a \o <<SEP>> \o b

\* The component stack of posixpath.normpath.
RECURSIVE NormComps(_, _, _)
NormComps(comps, acc, rooted) ==
    IF comps = <<>> THEN acc
    ELSE LET c == Head(comps) IN
         IF c = <<>> \/ c = <<".">> THEN NormComps(Tail(comps), acc, rooted)
         ELSE IF c # <<".", ".">>
                 \/ (~rooted /\ acc = <<>>)
                 \/ (acc # <<>> /\ acc[Len(acc)] = <<".", ".">>)
              THEN NormComps(Tail(comps), Append(acc, c), rooted)
         ELSE IF acc # <<>>
              THEN NormComps(Tail(comps), UpTo(acc, Len(acc) - 1), rooted)
         ELSE NormComps(Tail(comps), acc, rooted)

\* posixpath.normpath
os_path_normpath(p) ==
    IF p = <<>> THEN <<".">>
    ELSE LET slashes == IF ~StartsWith(p, <<SEP>>) THEN <<>>
                        ELSE IF StartsWith(p, <<SEP, SEP>>)
                                /\ ~StartsWith(p, <<SEP, SEP, SEP>>)
                             THEN <<SEP, SEP>>
                        ELSE <<SEP>>
             body == Join(NormComps(Split(p, SEP), <<>>, slashes # <<>>), <<SEP>>)
             out == slashes \o body
         IN  IF out = <<>> THEN <<".">> ELSE out

\* posixpath.abspath
os_path_abspath(p) ==
    IF os_path_isabs(p) THEN os_path_normpath(p)
    ELSE os_path_normpath(os_path_join(cwd, p))

-----------------------------------------------------------------------------
(* The file system: what stat() of a path finds.  A path is resolved one   *)
(* component at a time: "" and "." stay, ".." goes to the parent, a name   *)
(* goes to that entry of the current directory; every step but the last    *)
(* must be in a directory.                                                 *)

NotFound == <<"NotFound">>
Root == <<SEP>>

ParentDir(d) == IF d = Root THEN Root
                ELSE LET h == UpTo(d, RFind(d, SEP) - 1) IN
                     IF h = <<>> THEN Root ELSE h
ChildOf(d, n) == IF d = Root THEN Root \o n ELSE d \o <<SEP>> \o n

RECURSIVE Walk(_, _)
Walk(cur, comps) ==
    IF comps = <<>> THEN cur
    ELSE IF cur \notin dirs THEN NotFound
    ELSE LET c == Head(comps) IN
         IF c = <<>> \/ c = <<".">> THEN Walk(cur, Tail(comps))
         ELSE IF c = <<".", ".">> THEN Walk(ParentDir(cur), Tail(comps))
         ELSE LET n == ChildOf(cur, c) IN
              IF n \in dirs \cup files THEN Walk(n, Tail(comps)) ELSE NotFound

Stat(p) ==
    IF p = <<>> THEN NotFound
    ELSE Walk(IF os_path_isabs(p) THEN Root ELSE cwd, Split(p, SEP))

os_path_exists(p) == Stat(p) # NotFound
os_path_isdir(p) == Stat(p) \in dirs
os_path_isfile(p) == Stat(p) \in files

\* os.listdir(p) of a directory: the names of its entries.
os_listdir(p) ==
    LET d == Stat(p) IN
    {os_path_basename(e) : e \in {x \in dirs \cup files : x # Root /\ ParentDir(x) = d}}

-----------------------------------------------------------------------------
(* PathLocator: ident_re, file_like, src. *)

\* ident_re = ^[A-Za-z_][A-Za-z0-9_.]*$
ident_re_match(s) ==
    /\ s # <<>>
    /\ s[1] \in Letters
    /\ \A i \in 2..Len(s) : s[i] \in Letters \cup Digits \cup {"."}

\* The last operand of file_like: the name without its extension is no
\* identifier.
not_ident(name) == ~ident_re_match(os_path_splitext(name)[1])

file_like(name) ==
    \/ os_path_exists(name)
    \/ os_path_dirname(name) # <<>>
    \/ EndsWith(name, DOT_PY)
    \/ not_ident(name)

src(filename) ==
    IF filename = None THEN filename
    ELSE LET base == os_path_splitext(filename)[1]
             ext == os_path_splitext(filename)[2]
         IN  IF ext \in {DOT_PYC, DOT_PYO, DOT_PY}
             THEN Join(<<base, <<"p", "y">>>>, <<".">>)
             ELSE filename

-----------------------------------------------------------------------------
(* SpecifierParser: split_test_name.  A call either returns the 3-tuple    *)
(* (file, module, callable) or raises ValueError.                          *)

\* classify with the file kept beside the module (a slip in the tuple built
\* for a path-like location).
classify_both_set(file_or_mod, fn) ==
    IF file_or_mod # <<>>
    THEN IF file_like(file_or_mod)
         THEN Returned(<<file_or_mod, file_or_mod, fn>>)
         ELSE Returned(<<None, file_or_mod, fn>>)
    ELSE Returned(<<None, None, fn>>)

\* The tail of split_test_name: file_or_mod is classified by file_like.
classify(file_or_mod, fn) ==
    IF file_or_mod # <<>>
    THEN IF file_like(file_or_mod)
         THEN Returned(<<os_path_normpath(file_or_mod), None, fn>>)
         ELSE Returned(<<None, file_or_mod, fn>>)
    ELSE Returned(<<None, None, fn>>)

\* No colon in the test: only a file or module part.
no_colon(t) ==
    IF file_like(t) THEN Returned(<<os_path_normpath(t), None, None>>)
    ELSE Returned(<<None, t, None>>)

\* multi_colon without its first-segment test: the last colon always splits.
multi_colon_always_splits(t) ==
    LET parts == Split(t, ":") IN
    classify(Join(UpTo(parts, Len(parts) - 1), <<":">>), parts[Len(parts)])

\* The except branch: more than one colon and no directory part.
multi_colon(t) ==
    LET parts == Split(t, ":") IN
    IF Len(parts[1]) = 1
    THEN classify(Join(UpTo(parts, Len(parts) - 1), <<":">>), parts[Len(parts)])
    ELSE Raised("ValueError")

\* single_colon sending a path-like callable to the every-colon rule instead
\* of taking the whole specifier as the location.
single_colon_resplits(t) ==
    LET parts == Split(t, ":") IN
    IF file_like(parts[2]) THEN multi_colon(t)
    ELSE classify(parts[1], parts[2])

\* The try branch: file_or_mod, fn = test.split(':') unpacks two parts.
single_colon(t) ==
    LET parts == Split(t, ":") IN
    IF file_like(parts[2]) THEN classify(t, None)
    ELSE classify(parts[1], parts[2])

\* head is empty: 'foo:bar', or a drive letter and a path.
head_empty(t) ==
    IF Len(Split(t, ":")) = 2 THEN single_colon(t) ELSE multi_colon(t)

\* head and tail both non-empty: the callable is split off the tail; a tail
\* with two colons or more does not unpack (ValueError, not caught).
head_and_tail(head, tail) ==
    IF Contains(tail, ":")
    THEN LET parts == Split(tail, ":") IN
         IF Len(parts) # 2 THEN Raised("ValueError")
         ELSE classify(Join(<<head, parts[1]>>, <<SEP>>), parts[2])
    ELSE classify(Join(<<head, tail>>, <<SEP>>), None)

split_test_name(t) ==
    IF ~Contains(t, ":") THEN no_colon(t)
    ELSE LET head == os_path_split(t)[1]
             tail == os_path_split(t)[2]
         IN  IF head = <<>> THEN head_empty(t)
             ELSE IF tail = <<>> THEN classify(t, None)
             ELSE head_and_tail(head, tail)

-----------------------------------------------------------------------------
(* The parts of the state a specification does not use stay as they are.   *)

NameIdle == test = <<>> /\ split_result = Pending /\ fl_result = Pending
PkgIdle == pkg_path = <<>> /\ chain = <<>>
AddrIdle == entity = [kind |-> "absent"] /\ sys_modules = <<>> /\ addr_result = Pending
RnIdle ==
    /\ rn_name = <<>> /\ importable = {} /\ attributes = {}
    /\ rn_parts = <<>> /\ rn_parts_copy = <<>> /\ attempts = <<>>
    /\ obj = [base |-> "none", path |-> <<>>] /\ rn_pc = "idle"
TrIdle ==
    /\ fixture_obj = [kind |-> "absent"] /\ names = <<>> /\ tr_i = 0
    /\ calls = <<>> /\ tr_result = Pending

-----------------------------------------------------------------------------
(* The specifier specification: a specifier typed by the user is parsed    *)
(* by split_test_name and classified by file_like, in a working directory  *)
(* that may or may not hold a file of that name.                           *)

SpecChars == {"p", "y", "1", ":", "/", "."}
Specifiers == UNION {[1..k -> SpecChars] : k \in 0..MaxLen}

W == <<SEP, "w">>
NameFiles == {W \o <<SEP, "p">>}

NameInit ==
    /\ dirs = {Root, W}
    /\ cwd = W
    /\ files \in SUBSET NameFiles
    /\ test \in Specifiers
    /\ split_result = Pending
    /\ fl_result = Pending
    /\ PkgIdle /\ AddrIdle /\ RnIdle /\ TrIdle

SplitTestName ==
    /\ split_result = Pending
    /\ split_result' = split_test_name(test)
    /\ UNCHANGED <<fsVars, test, fl_result, pkgVars, addrVars, rnVars, trVars>>

FileLike ==
    /\ fl_result = Pending
    /\ fl_result' = Returned(file_like(test))
    /\ UNCHANGED <<fsVars, test, split_result, pkgVars, addrVars, rnVars, trVars>>

NameNext == SplitTestName \/ FileLike

SpecName == NameInit /\ [][NameNext]_vars

-----------------------------------------------------------------------------
(* PackageMapper: ispackage, getfilename, getpackage.  A call handed None  *)
(* fails with AttributeError (None has no split and no endswith).          *)

ispackage(path) ==
    /\ os_path_isdir(path)
    /\ \E e \in os_listdir(path) :
           os_path_isfile(os_path_join(path, e)) /\ src(e) = INIT_PY

\* getfilename's loop over ('/__init__.py', '.py'): the first that exists.
first_existing(path) ==
    IF os_path_exists(path \o <<SEP>> \o INIT_PY) THEN path \o <<SEP>> \o INIT_PY
    ELSE IF os_path_exists(path \o DOT_PY) THEN path \o DOT_PY
    ELSE None

\* getfilename that tries the '.py' suffix only.
getfilename_module_only(package) ==
    IF package = None THEN Raised("AttributeError")
    ELSE LET path == os_path_join(cwd, Join(Split(package, "."), <<SEP>>)) IN
         Returned(IF os_path_exists(path \o DOT_PY) THEN path \o DOT_PY ELSE None)

\* getfilename(package), relativeTo left to default to os.getcwd()
getfilename(package) ==
    IF package = None THEN Raised("AttributeError")
    ELSE Returned(first_existing(
             os_path_join(cwd, Join(Split(package, "."), <<SEP>>))))

\* getpackage's while loop: part is appended while path/part is a package.
RECURSIVE walk_up(_, _, _)
walk_up(path, part, mod_parts) ==
    IF part = <<>> THEN mod_parts
    ELSE IF ispackage(os_path_join(path, part))
         THEN walk_up(os_path_split(path)[1], os_path_split(path)[2],
                      Append(mod_parts, part))
         ELSE mod_parts

Reverse(q) == [i \in 1..Len(q) |-> q[Len(q) + 1 - i]]

\* What the path itself contributes: its stem, unless that is __init__.
leaf_parts(src_file) ==
    LET base == os_path_splitext(os_path_basename(src_file))[1] IN
    IF base = INIT_STEM THEN <<>> ELSE <<base>>

getpackage(fname) ==
    IF fname = None THEN Raised("AttributeError")
    ELSE LET src_file == src(fname) IN
         IF ~EndsWith(src_file, DOT_PY) /\ ~ispackage(src_file)
         THEN Returned(None)
         ELSE LET parent == os_path_split(src_file)[1]
                  mod_parts == walk_up(os_path_split(parent)[1],
                                       os_path_split(parent)[2],
                                       leaf_parts(src_file))
              IN  Returned(Join(Reverse(mod_parts), <<".">>))

-----------------------------------------------------------------------------
(* The package specification: a tree /a/b/c in which every directory may   *)
(* or may not hold a package marker (as source or as bytecode) and a       *)
(* module m; the process runs in one of the directories.  getpackage is    *)
(* called on a path, absolute or relative to the working directory, and    *)
(* its result is taken through getfilename and getpackage again.           *)

DirA == <<SEP, "a">>
DirB == DirA \o <<SEP, "b">>
DirC == DirB \o <<SEP, "c">>
DirM == DirA \o <<SEP, "m">>
PkgDirs == {Root, DirA, DirB, DirC, DirM}

M_PY == <<"m", ".", "p", "y">>
M_PYC == <<"m", ".", "p", "y", "c">>
INIT_PYC == INIT_PY \o <<"c">>
DATA == <<"d">>

\* The files that are always there, and those that may be.
FixedFiles == {ChildOf(DirC, M_PYC), ChildOf(DirB, DATA)}
OptionalFiles ==
    {ChildOf(DirA, INIT_PY), ChildOf(DirB, INIT_PYC), ChildOf(DirC, INIT_PY),
     ChildOf(DirM, INIT_PY),
     ChildOf(DirA, M_PY), ChildOf(DirB, M_PY), ChildOf(DirC, M_PY)}

\* A path as the caller may write it: absolute, or relative to cwd.
RelativeTo(d, path) ==
    IF d = Root THEN From(path, 1) ELSE From(path, Len(d) + 1)
IsBelow(d, path) ==
    path # d /\ StartsWith(path, IF d = Root THEN d ELSE d \o <<SEP>>)
Spellings(d, path) ==
    {path} \cup (IF IsBelow(d, path) THEN {RelativeTo(d, path)} ELSE {})

PkgTargets == (PkgDirs \ {Root}) \cup FixedFiles \cup OptionalFiles

PkgInit ==
    /\ dirs = PkgDirs
    /\ files \in {FixedFiles \cup F : F \in SUBSET OptionalFiles}
    /\ cwd \in PkgDirs
    /\ pkg_path \in UNION {Spellings(cwd, t) : t \in PkgTargets}
    /\ chain = <<>>
    /\ NameIdle /\ AddrIdle /\ RnIdle /\ TrIdle

\* The first call of the round trip: getpackage(pkg_path).
GetPackage ==
    /\ chain = <<>>
    /\ chain' = <<getpackage(pkg_path)>>
    /\ UNCHANGED <<fsVars, pkg_path, nameVars, addrVars, rnVars, trVars>>

\* getfilename of the module name the last getpackage returned.
GetFilenameOfResult ==
    /\ chain # <<>>
    /\ Len(chain) < MaxChain
    /\ Len(chain) % 2 = 1
    /\ chain[Len(chain)].exc = "none"
    /\ chain' = Append(chain, getfilename(chain[Len(chain)].val))
    /\ UNCHANGED <<fsVars, pkg_path, nameVars, addrVars, rnVars, trVars>>

\* getpackage of the file name the last getfilename returned.
GetPackageOfResult ==
    /\ chain # <<>>
    /\ Len(chain) < MaxChain
    /\ Len(chain) % 2 = 0
    /\ chain[Len(chain)].exc = "none"
    /\ chain' = Append(chain, getpackage(chain[Len(chain)].val))
    /\ UNCHANGED <<fsVars, pkg_path, nameVars, addrVars, rnVars, trVars>>

PkgNext == GetPackage \/ GetFilenameOfResult \/ GetPackageOfResult

SpecPkg == PkgInit /\ [][PkgNext]_vars

-----------------------------------------------------------------------------
(* AddressResolver: test_address.  A runtime entity is a record; kind says *)
(* what was built, TypeOf what type() returns for it.  unittest.TestCase   *)
(* is a classic class on the older interpreters and a new-style class on   *)
(* the newer ones, so a test case's class may be of either kind.           *)

\* An attribute that is not there.
Absent == [kind |-> "absent"]

\* type(test), as far as test_address compares it.
TypeOf(e) ==
    CASE e.kind = "module" -> "ModuleType"
      [] e.kind = "function" -> "FunctionType"
      [] e.kind = "type" -> "type"
      [] e.kind = "classobj" -> "ClassType"
      [] e.kind = "method" -> "MethodType"
      [] e.kind \in {"instance", "testcase"} ->
             IF e.class.kind = "classobj" THEN "InstanceType" ELSE "its class"
      [] OTHER -> "other"

\* "%s" % x
Str(x) == IF x = None THEN <<"N", "o", "n", "e">> ELSE x

\* A module: __file__ as it is, __name__, no callable.
module_address(e) == Returned(<<e.file, e.name, None>>)

\* A function or class: the file of its module (made absolute) and its name.
callable_address(e) ==
    IF e.module = None THEN Returned(<<None, None, e.name>>)
    ELSE IF e.module \notin DOMAIN sys_modules THEN Raised("KeyError")
    ELSE LET file == sys_modules[e.module].file IN
         Returned(<<IF file # None THEN os_path_abspath(file) ELSE file,
                    e.module, e.name>>)

\* The address of a class with the callable dropped.
class_address_without_callable(e) ==
    LET adr == callable_address(e.class) IN
    IF adr.exc # "none" THEN adr
    ELSE Returned(<<adr.val[1], adr.val[2], None>>)

\* instance_address as the address of the class without its callable.
instance_address_drops_callable(e) == class_address_without_callable(e)

\* An instance of a classic class: the address of its class.  (The class is
\* a class, so test_address(test.__class__) is its callable_address.)
instance_address(e) == callable_address(e.class)

\* cls_adr with the callable qualified by a method's name.
qualified(cls_adr, method) ==
    IF cls_adr.exc # "none" THEN cls_adr
    ELSE Returned(<<cls_adr.val[1], cls_adr.val[2],
                    Str(cls_adr.val[3]) \o <<".">> \o Str(method)>>)

\* A bound or unbound method: the address of im_class, qualified.
method_address(e) == qualified(callable_address(e.im_class), e.name)

\* A unittest.TestCase that is not caught as an InstanceType: a
\* FunctionTestCase gives the address of its function, any other the address
\* of its class qualified by the test method's name.
testcase_address(e) ==
    IF e.testFunc # Absent THEN callable_address(e.testFunc)
    ELSE qualified(callable_address(e.class), e.methodName)

test_address(e) ==
    IF e.kind = "addressable" THEN Returned(e.address)
    ELSE CASE TypeOf(e) = "ModuleType" -> module_address(e)
           [] TypeOf(e) \in {"FunctionType", "type", "ClassType"} ->
                  callable_address(e)
           [] TypeOf(e) = "InstanceType" -> instance_address(e)
           [] TypeOf(e) = "MethodType" -> method_address(e)
           [] OTHER -> IF e.kind = "testcase" THEN testcase_address(e)
                       ELSE Raised("TypeError")

-----------------------------------------------------------------------------
(* The address specification: test_address is called on one entity of      *)
(* every variant, with module m registered in sys.modules or not, its      *)
(* __file__ absent, absolute or relative.                                  *)

ModM == <<"m">>
ModuleFiles == {None, W \o <<SEP>> \o M_PY, M_PYC, <<".", ".", SEP>> \o M_PY}
Modules == {[kind |-> "module", file |-> f, name |-> ModM] : f \in ModuleFiles}
Functions ==
    {[kind |-> "function", module |-> m, name |-> <<"f">>] : m \in {None, ModM}}
Classes ==
    {[kind |-> k, module |-> m, name |-> <<"C">>] :
        k \in {"classobj", "type"}, m \in {None, ModM}}
Instances ==
    {[kind |-> "instance", class |-> c] : c \in Classes}
Methods ==
    {[kind |-> "method", im_class |-> c, name |-> <<"t">>] : c \in Classes}
TestCases ==
    {[kind |-> "testcase", class |-> c, testFunc |-> f, methodName |-> <<"t">>] :
        c \in Classes, f \in {Absent} \cup Functions}
Addressables ==
    {[kind |-> "addressable", address |-> <<M_PYC, ModM, <<"f">>>>]}
Others == {[kind |-> "int"]}
Entities ==
    Modules \cup Functions \cup Classes \cup Instances \cup Methods
        \cup TestCases \cup Addressables \cup Others

SysModules ==
    {<<>>} \cup {[n \in {ModM} |-> mod] : mod \in Modules}

AddrInit ==
    /\ dirs = {Root, W}
    /\ files = {}
    /\ cwd \in {Root, W}
    /\ entity \in Entities
    /\ sys_modules \in SysModules
    /\ addr_result = Pending
    /\ NameIdle /\ PkgIdle /\ RnIdle /\ TrIdle

TestAddress ==
    /\ addr_result = Pending
    /\ addr_result' = test_address(entity)
    /\ UNCHANGED <<fsVars, entity, sys_modules, nameVars, pkgVars, rnVars, trVars>>

AddrNext == TestAddress

SpecAddr == AddrInit /\ [][AddrNext]_vars

-----------------------------------------------------------------------------
(* NameBinder: resolve_name, one step of its loops at a time.  The import  *)
(* mechanism is the environment: __import__(target) returns the top-level  *)
(* module when target is in importable and raises ImportError when it is   *)
(* not.  obj is where the attribute walk stands: the module it started     *)
(* from (handed in, or imported) and the attribute names followed since.   *)

\* '.'.join(parts_copy), the argument of __import__
import_target(copy) == Join(copy, <<".">>)

\* del parts_copy[0]
drop_first(copy) == Tail(copy)

\* del parts_copy[-1]
drop_last(copy) == UpTo(copy, Len(copy) - 1)

\* getattr(obj, part) finds what the environment defines and the submodules
\* the import bound on the way to its target.
HasAttr(o, part) ==
    LET path == Append(o.path, part) IN
    \/ path \in attributes
    \/ /\ o.base = "imported"
       /\ attempts # <<>>
       /\ LET imported == Split(attempts[Len(attempts)], ".") IN
          Len(path) <= Len(imported) /\ UpTo(imported, Len(path)) = path

Prefixes(q) == {UpTo(q, k) : k \in 1..Len(q)}

NameChars == {"a", "b", "."}
DottedNames == UNION {[1..k -> NameChars] : k \in 0..MaxNameLen}

RnInit ==
    /\ rn_name \in DottedNames
    /\ importable \in SUBSET {import_target(q) : q \in Prefixes(Split(rn_name, "."))}
    /\ \E depth \in 0..Len(Split(rn_name, ".")) :
           attributes = {q \in Prefixes(Split(rn_name, ".")) : Len(q) <= depth}
    /\ obj \in {[base |-> "none", path |-> <<>>], [base |-> "given", path |-> <<>>]}
    /\ rn_parts = <<>>
    /\ rn_parts_copy = <<>>
    /\ attempts = <<>>
    /\ rn_pc = "start"
    /\ dirs = {Root} /\ files = {} /\ cwd = Root
    /\ NameIdle /\ PkgIdle /\ AddrIdle /\ TrIdle

\* parts = name.split('.'); parts_copy = parts[:]; the import loop is entered
\* when no module was handed in.
SplitName ==
    /\ rn_pc = "start"
    /\ rn_parts' = Split(rn_name, ".")
    /\ rn_parts_copy' = Split(rn_name, ".")
    /\ rn_pc' = IF obj.base = "none" THEN "import" ELSE "walk"
    /\ UNCHANGED <<rn_name, importable, attributes, attempts, obj>>
    /\ UNCHANGED <<fsVars, nameVars, pkgVars, addrVars, trVars>>

\* __import__ succeeds: break, parts = parts[1:], obj = module.
ImportSucceeds ==
    /\ rn_pc = "import"
    /\ import_target(rn_parts_copy) \in importable
    /\ attempts' = Append(attempts, import_target(rn_parts_copy))
    /\ obj' = [base |-> "imported", path |-> <<rn_parts[1]>>]
    /\ rn_parts' = Tail(rn_parts)
    /\ rn_pc' = "walk"
    /\ UNCHANGED <<rn_name, importable, attributes, rn_parts_copy>>
    /\ UNCHANGED <<fsVars, nameVars, pkgVars, addrVars, trVars>>

\* __import__ raises ImportError: the last component is dropped, and the
\* error is raised again when none is left.
ImportFails ==
    /\ rn_pc = "import"
    /\ import_target(rn_parts_copy) \notin importable
    /\ attempts' = Append(attempts, import_target(rn_parts_copy))
    /\ rn_parts_copy' = drop_last(rn_parts_copy)
    /\ rn_pc' = IF drop_last(rn_parts_copy) = <<>> THEN "ImportError" ELSE "import"
    /\ UNCHANGED <<rn_name, importable, attributes, rn_parts, obj>>
    /\ UNCHANGED <<fsVars, nameVars, pkgVars, addrVars, trVars>>

\* for part in parts: obj = getattr(obj, part)
GetAttr ==
    /\ rn_pc = "walk"
    /\ rn_parts # <<>>
    /\ IF HasAttr(obj, rn_parts[1])
       THEN /\ obj' = [obj EXCEPT !.path = Append(obj.path, rn_parts[1])]
            /\ rn_parts' = Tail(rn_parts)
            /\ rn_pc' = "walk"
       ELSE /\ rn_pc' = "AttributeError"
            /\ UNCHANGED <<obj, rn_parts>>
    /\ UNCHANGED <<rn_name, importable, attributes, rn_parts_copy, attempts>>
    /\ UNCHANGED <<fsVars, nameVars, pkgVars, addrVars, trVars>>

\* return obj
ReturnObj ==
    /\ rn_pc = "walk"
    /\ rn_parts = <<>>
    /\ rn_pc' = "returned"
    /\ UNCHANGED <<rn_name, importable, attributes, rn_parts, rn_parts_copy, attempts, obj>>
    /\ UNCHANGED <<fsVars, nameVars, pkgVars, addrVars, trVars>>

RnNext == SplitName \/ ImportSucceeds \/ ImportFails \/ GetAttr \/ ReturnObj

SpecResolve == RnInit /\ [][RnNext]_vars

-----------------------------------------------------------------------------
(* Fixture lookup: try_run, one pass of its loop at a time.  What          *)
(* getattr(obj, name, None) gives is one of:                               *)
(*   "missing"      no such attribute, or None                             *)
(*   "noncallable"  a value that cannot be called                          *)
(*   "function0"    a Python function without positional parameters        *)
(*   "function1"    a Python function with one positional parameter        *)
(*   "method0"      a bound method that takes self alone                   *)
(*   "callable0"    an object whose __call__(self) is a Python function    *)
(*   "callable1"    an object whose __call__(self, x) is a Python function *)
(*   "builtin"      a callable inspect.getargspec cannot read (a class, a  *)
(*                  C function), called without arguments                  *)

AttrKinds ==
    {"missing", "noncallable", "function0", "function1", "method0",
     "callable0", "callable1", "builtin"}

\* present, taken to mean "present and callable".
present_and_callable(kind) == kind \notin {"missing", "noncallable"}

\* func is not None
present(kind) == kind # "missing"

\* The two inspect.getargspec calls made for a module's attribute: the number
\* of positional parameters left (self is popped off a __call__, not off a
\* bound method), or -1 for TypeError.
positional_args(kind) ==
    CASE kind = "function0" -> 0
      [] kind = "function1" -> 1
      [] kind = "method0" -> 1
      [] kind = "callable0" -> 0
      [] kind = "callable1" -> 1
      [] OTHER -> -1

\* The positional parameters the attribute takes when called.
Arity(kind) == IF kind \in {"function1", "callable1"} THEN 1 ELSE 0

\* What calling the attribute named n with nargs arguments does: its result,
\* or the interpreter's TypeError for a wrong number of arguments.
Invoke(n, kind, nargs) ==
    IF Arity(kind) = nargs THEN Returned(<<"result of", n>>)
    ELSE Raised("TypeError")

\* The arguments try_run passes: the module itself when obj is a module and
\* the fixture takes a positional argument, none otherwise.
passed_args(o, kind) ==
    IF o.kind = "module" /\ positional_args(kind) > 0 THEN 1 ELSE 0

\* Whether try_run gets as far as calling the attribute: on a module it must
\* be readable by getargspec, on anything else it must be callable.
reaches_call(o, kind) ==
    IF o.kind = "module" THEN positional_args(kind) >= 0
    ELSE kind # "noncallable"

FixtureNames == {"setup", "setUp", "setup_module"}
NameLists == UNION {[1..k -> FixtureNames] : k \in 0..MaxNames}

TrInit ==
    /\ fixture_obj \in
           {[kind |-> k, attrs |-> a] :
               k \in {"module", "other"}, a \in [FixtureNames -> AttrKinds]}
    /\ names \in NameLists
    /\ tr_i = 1
    /\ calls = <<>>
    /\ tr_result = Pending
    /\ dirs = {Root} /\ files = {} /\ cwd = Root
    /\ NameIdle /\ PkgIdle /\ AddrIdle /\ RnIdle

TrLooping == tr_result = Pending /\ tr_i <= Len(names)
TrFunc == fixture_obj.attrs[names[tr_i]]

\* getattr gave None: on to the next name.
NextName ==
    /\ TrLooping
    /\ ~present(TrFunc)
    /\ tr_i' = tr_i + 1
    /\ UNCHANGED <<fixture_obj, names, calls, tr_result>>
    /\ UNCHANGED <<fsVars, nameVars, pkgVars, addrVars, rnVars>>

\* The attribute is there and can be called: it is called and its result
\* (or its error) is try_run's.
CallFixture ==
    /\ TrLooping
    /\ present(TrFunc)
    /\ reaches_call(fixture_obj, TrFunc)
    /\ calls' = Append(calls, [name |-> names[tr_i],
                               nargs |-> passed_args(fixture_obj, TrFunc)])
    /\ tr_result' = Invoke(names[tr_i], TrFunc, passed_args(fixture_obj, TrFunc))
    /\ UNCHANGED <<fixture_obj, names, tr_i>>
    /\ UNCHANGED <<fsVars, nameVars, pkgVars, addrVars, rnVars>>

\* The attribute is there and cannot be called as a fixture: TypeError.
RejectFixture ==
    /\ TrLooping
    /\ present(TrFunc)
    /\ ~reaches_call(fixture_obj, TrFunc)
    /\ tr_result' = Raised("TypeError")
    /\ UNCHANGED <<fixture_obj, names, tr_i, calls>>
    /\ UNCHANGED <<fsVars, nameVars, pkgVars, addrVars, rnVars>>

\* The loop ran off the list: try_run returns None.
NoFixture ==
    /\ tr_result = Pending
    /\ tr_i > Len(names)
    /\ tr_result' = Returned(None)
    /\ UNCHANGED <<fixture_obj, names, tr_i, calls>>
    /\ UNCHANGED <<fsVars, nameVars, pkgVars, addrVars, rnVars>>

TrNext == NextName \/ CallFixture \/ RejectFixture \/ NoFixture

SpecTryRun == TrInit /\ [][TrNext]_vars

-----------------------------------------------------------------------------
(* Properties of the specifier parser. *)

SplitDone == split_result # Pending
SplitReturned == split_result # Pending /\ split_result.exc = "none"
Blank(x) == x = None \/ x = <<>>
AfterLastColon(t) == From(t, RFind(t, ":"))

\* C1: a specifier with no path separator, two or more colons and a first
\* colon-delimited segment longer than one character makes split_test_name
\* fail with ValueError; it never returns a tuple.
C1_Malformed ==
    /\ ~Contains(test, SEP)
    /\ Count(test, ":") >= 2
    /\ Len(Split(test, ":")[1]) > 1
C1_MalformedRaises ==
    (SplitDone /\ C1_Malformed) => split_result = Raised("ValueError")
C1_Witness == SplitDone /\ C1_Malformed /\ split_result = Raised("ValueError")

\* C2 (as stated): a specifier with no path separator and exactly one colon
\* whose part after the colon is file_like goes through the every-colon rule:
\* a one-character first segment gives the last segment as the callable, and
\* any other shape fails with ValueError.
C2_FunnyPath ==
    /\ ~Contains(test, SEP)
    /\ Count(test, ":") = 1
    /\ file_like(AfterLastColon(test))
C2_Original ==
    (SplitDone /\ C2_FunnyPath) =>
        IF Len(Split(test, ":")[1]) = 1
        THEN /\ split_result.exc = "none"
             /\ split_result.val[3] = AfterLastColon(test)
        ELSE split_result = Raised("ValueError")

\* C2 (amended): for such a specifier split_test_name never fails and never
\* extracts a callable: the whole specifier is the location, returned as
\* (normpath(specifier), None, None) when the whole specifier is file_like
\* and as (None, specifier, None) when it is not.
C2_WholeSpecifierIsLocation ==
    (SplitDone /\ C2_FunnyPath) =>
        split_result = IF file_like(test)
                       THEN Returned(<<os_path_normpath(test), None, None>>)
                       ELSE Returned(<<None, test, None>>)
C2_Witness ==
    /\ SplitDone
    /\ C2_FunnyPath
    /\ Len(Split(test, ":")[1]) > 1
    /\ split_result = Returned(<<test, None, None>>)

\* C3: whenever split_test_name returns, the tuple is not all blank, file and
\* module are not both set, a file is a normalised path, a module is a
\* non-empty location that is not file_like, and a callable is what follows
\* the specifier's last colon.
C3_TupleShape ==
    SplitReturned =>
        LET file == split_result.val[1]
            module == split_result.val[2]
            call == split_result.val[3]
        IN  /\ ~(Blank(file) /\ Blank(module) /\ Blank(call))
            /\ file = None \/ module = None
            /\ file # None => os_path_normpath(file) = file
            /\ module # None =>
                   /\ module # <<>>
                   /\ ~file_like(module)
                   /\ StartsWith(test, module)
            /\ call # None => Contains(test, ":") /\ call = AfterLastColon(test)
C3_Witness ==
    /\ SplitReturned
    /\ split_result.val[1] # None
    /\ split_result.val[1] # test
    /\ split_result.val[2] = None
    /\ split_result.val[3] # None

\* C4 (as stated): file_like(name) is true exactly when name exists, or has a
\* directory part, or ends with '.py', or the whole name does not match
\* ident_re.
C4_WholeNameRule ==
    fl_result # Pending =>
        fl_result.val = (\/ os_path_exists(test)
                         \/ os_path_dirname(test) # <<>>
                         \/ EndsWith(test, DOT_PY)
                         \/ ~ident_re_match(test))

-----------------------------------------------------------------------------
(* Properties of the package mapper. *)

BYTECODE_OR_SOURCE == {DOT_PY, DOT_PYC, DOT_PYO}
MARKERS == {INIT_PY, INIT_PY \o <<"c">>, INIT_PY \o <<"o">>}

\* A directory that directly holds a package marker.
IsPackageDir(d) ==
    /\ d \in dirs
    /\ \E f \in files : ParentDir(f) = d /\ os_path_basename(f) \in MARKERS

\* The names of the maximal unbroken run of package directories that ends
\* at directory d, outermost first.
RECURSIVE PackageRun(_)
PackageRun(d) ==
    IF d # Root /\ IsPackageDir(d)
    THEN Append(PackageRun(ParentDir(d)), os_path_basename(d))
    ELSE <<>>

NamesModule(path) ==
    \/ \E ext \in BYTECODE_OR_SOURCE : EndsWith(path, ext)
    \/ IsPackageDir(os_path_abspath(path))

Stem(path) == os_path_splitext(os_path_basename(path))[1]

DottedName(path) ==
    IF NamesModule(path)
    THEN Join(PackageRun(ParentDir(os_path_abspath(path)))
                  \o (IF Stem(path) = INIT_STEM THEN <<>> ELSE <<Stem(path)>>),
              <<".">>)
    ELSE None

\* C7 (as stated): getpackage of a path that names a source or bytecode file
\* or a package directory is the dotted run of package directories ending at
\* the path's parent directory, followed by the path's stem unless that is
\* __init__; for any other path it is None.
C7_MaximalPackageRun ==
    chain # <<>> => chain[1] = Returned(DottedName(pkg_path))

\* The same for paths written absolutely.
C7_AbsolutePaths ==
    (chain # <<>> /\ os_path_isabs(pkg_path)) =>
        chain[1] = Returned(DottedName(pkg_path))

\* C8 (as stated): for an absolute path p of an existing file every call of
\* getpackage(getfilename(getpackage(p))) returns, and with m its result,
\* getpackage(getfilename(m)) returns m.
C8_ExistingFile == os_path_isabs(pkg_path) /\ pkg_path \in files
C8_Original ==
    C8_ExistingFile =>
        /\ \A i \in 1..Len(chain) : chain[i].exc = "none"
        /\ Len(chain) >= 5 => chain[5] = chain[3]

\* The directories from d (excluded) down to the one that holds path.
RECURSIVE DirsBetween(_, _)
DirsBetween(d, path) ==
    IF ~IsBelow(d, ParentDir(path)) THEN {}
    ELSE {ParentDir(path)} \cup DirsBetween(d, ParentDir(path))

\* C8 (amended): for an absolute path p of an existing .py source file that
\* lies below the working directory, where the working directory is not a
\* package directory, every directory between it and p is one, and no name
\* on the way holds a dot: every call of the round trip returns a value,
\* getpackage(getfilename(getpackage(p))) = getpackage(p), and that module
\* name is a fixed point of one more round trip.
C8_SourceInPackageTree ==
    /\ C8_ExistingFile
    /\ EndsWith(pkg_path, DOT_PY)
    /\ IsBelow(cwd, pkg_path)
    /\ ~IsPackageDir(cwd)
    /\ \A d \in DirsBetween(cwd, pkg_path) : IsPackageDir(d)
    /\ ~Contains(UpTo(RelativeTo(cwd, pkg_path), Len(RelativeTo(cwd, pkg_path)) - 3), ".")
C8_RoundTripFixedPoint ==
    C8_SourceInPackageTree =>
        /\ \A i \in 1..Len(chain) : chain[i].exc = "none" /\ chain[i].val # None
        /\ Len(chain) >= 3 => chain[3] = chain[1]
        /\ Len(chain) >= 5 => chain[5] = chain[3]
C8_Witness ==
    /\ C8_SourceInPackageTree
    /\ Len(chain) = 5
    /\ chain[5] = chain[3]
    /\ chain[2].val # pkg_path
    /\ Contains(chain[3].val, ".")

-----------------------------------------------------------------------------
(* Properties of the address resolver. *)

AddrDone == addr_result # Pending
AddrReturned == addr_result # Pending /\ addr_result.exc = "none"

\* An instance of a user-defined class that is no test case and has no
\* address() of its own.
PlainInstance == entity.kind = "instance"
ClassicInstance == PlainInstance /\ entity.class.kind = "classobj"

\* The file of a class's module as test_address reports it, None when there
\* is none.
FileOfClass(c) ==
    IF c.module = None \/ sys_modules[c.module].file = None THEN None
    ELSE os_path_abspath(sys_modules[c.module].file)

ListedVariant ==
    entity.kind \in {"module", "function", "classobj", "type", "instance",
                     "method", "testcase"}
C6_FileAbsolute ==
    (AddrReturned /\ ListedVariant) =>
        addr_result.val[1] = None \/ os_path_isabs(addr_result.val[1])

\* The same for every listed variant but the module.
C6_AbsoluteUnlessModule ==
    (AddrReturned /\ ListedVariant /\ entity.kind # "module") =>
        addr_result.val[1] = None \/ os_path_isabs(addr_result.val[1])

-----------------------------------------------------------------------------
(* Properties of the name binder. *)

RnComponents == Split(rn_name, ".")
RnFinished == rn_pc \in {"returned", "ImportError", "AttributeError"}
NoPrefixImports ==
    \A q \in Prefixes(RnComponents) : import_target(q) \notin importable

\* C9: called without a module, resolve_name hands __import__ the dotted
\* prefixes of name from the full name down, one component shorter after
\* each failure; no attempt follows one that imported; there are never more
\* attempts than components; and when no prefix imports the call ends in
\* ImportError after trying them all, never in a returned entity.
C9_ShrinkingPrefixImports ==
    (rn_pc # "start" /\ obj.base # "given") =>
        LET n == Len(RnComponents) IN
        /\ Len(attempts) <= n
        /\ \A i \in 1..Len(attempts) :
               attempts[i] = import_target(UpTo(RnComponents, n + 1 - i))
        /\ \A i \in 1..(Len(attempts) - 1) : attempts[i] \notin importable
        /\ rn_pc = "import" =>
               /\ \A i \in 1..Len(attempts) : attempts[i] \notin importable
               /\ Len(attempts) < n
               /\ ENABLED (ImportSucceeds \/ ImportFails)
        /\ rn_pc \in {"walk", "returned", "AttributeError"} =>
               /\ attempts # <<>>
               /\ attempts[Len(attempts)] \in importable
        /\ rn_pc = "ImportError" => Len(attempts) = n /\ NoPrefixImports
        /\ (RnFinished /\ NoPrefixImports) => rn_pc = "ImportError"
C9_Witness ==
    /\ rn_pc = "returned"
    /\ obj.base = "imported"
    /\ Len(attempts) = 2
    /\ Len(RnComponents) = 3
    /\ \A c \in 1..3 : RnComponents[c] # <<>>

-----------------------------------------------------------------------------
(* Properties of the fixture lookup. *)

TrDone == tr_result # Pending
KindOf(i) == fixture_obj.attrs[names[i]]
PresentAt == {i \in 1..Len(names) : KindOf(i) # "missing"}
CallableAt == {i \in 1..Len(names) : KindOf(i) \notin {"missing", "noncallable"}}

Usable(kind) ==
    IF fixture_obj.kind = "module"
    THEN kind \in {"function0", "function1", "method0", "callable0", "callable1"}
    ELSE kind # "noncallable"

\* The fixtures inspect.getargspec reports a positional parameter for.
ReportsParameter(kind) == kind \in {"function1", "method0", "callable1"}

====
